---- MODULE Spec2Model ----
(***************************************************************************)
(* Model of pbkdf2.py (PBKDF2 on top of the standard library's hmac).      *)
(*                                                                         *)
(* A call of pbkdf2_bin / pbkdf2_hex is a frame that advances one PRF      *)
(* evaluation at a time; hmac objects live on a heap and are reached by    *)
(* reference, so that copy() and update() have their object semantics.     *)
(* The module models the Python 3 branch (_bin = _bin_py3, izip = zip,     *)
(* xrange = range); _bin_py2 is the same loop over lists of ordinals.      *)
(*                                                                         *)
(* The hash behind hmac is the standard library's, not this repository's:  *)
(* it is modelled by a small deterministic mixing function whose digests   *)
(* are a few bytes long, so that key lengths around one, two and three     *)
(* digests are all within the bounds.                                      *)
(***************************************************************************)
EXTENDS Integers, Sequences, FiniteSets, TLC

VARIABLES heap, frame

vars == <<heap, frame>>

\* ------------------------------------------------------------------ bounds
MaxKeylen == 7
MaxNegKeylen == 2
MaxIterations == 3
ConcMaxKeylen == 3
ConcMaxIterations == 2

Procs == {1, 2}

Min(a, b) == IF a < b THEN a ELSE b
Max(a, b) == IF a < b THEN b ELSE a

\* ------------------------------------------------------- bytes and strings
\* operator.xor on two byte values
RECURSIVE xor(_, _)
xor(a, b) ==
    IF a = 0 THEN b
    ELSE IF b = 0 THEN a
    ELSE (((a % 2) + (b % 2)) % 2) + 2 * xor(a \div 2, b \div 2)

\* list(starmap(xor, izip(rv, u))): zip stops at the shorter argument
starmap_xor(rv, u) ==
    [k \in 1..Min(Len(rv), Len(u)) |-> xor(rv[k], u[k])]

\* Struct('>I').pack: four bytes, most significant first
_pack_int(n) ==
    << (n \div 16777216) % 256, (n \div 65536) % 256, (n \div 256) % 256, n % 256 >>

\* buf[:keylen], Python slice semantics (a negative bound counts from the end)
slice_to(buf, keylen) ==
    LET n == Len(buf)
        e == IF keylen < 0 THEN Max(n + keylen, 0) ELSE Min(keylen, n)
    IN  SubSeq(buf, 1, e)

\* codecs.encode(result, 'hex'): two lowercase hex digits (ASCII codes) a byte
hexdigit(n) == IF n < 10 THEN 48 + n ELSE 87 + n

hex_encode(bs) ==
    [k \in 1..(2 * Len(bs)) |->
        IF k % 2 = 1 THEN hexdigit(bs[(k + 1) \div 2] \div 16)
        ELSE hexdigit(bs[k \div 2] % 16)]

\* A value is bytes or text: [t |-> "bytes" | "str", v |-> <<...>>];
\* the elements of a str are code points.
can_encode(s) == s.t = "str"

utf8_char(c) ==
    IF c < 128 THEN <<c>>
    ELSE IF c < 2048 THEN <<192 + (c \div 64), 128 + (c % 64)>>
    ELSE IF c < 65536 THEN
        <<224 + (c \div 4096), 128 + ((c \div 64) % 64), 128 + (c % 64)>>
    ELSE <<240 + (c \div 262144), 128 + ((c \div 4096) % 64),
           128 + ((c \div 64) % 64), 128 + (c % 64)>>

RECURSIVE utf8(_)
utf8(cs) == IF cs = <<>> THEN <<>> ELSE utf8_char(Head(cs)) \o utf8(Tail(cs))

\* str.encode raises UnicodeEncodeError when a code point has no encoding
encodable(cs, encoding) ==
    IF encoding = "latin-1" THEN \A k \in 1..Len(cs) : cs[k] < 256 ELSE TRUE

str_encode(cs, encoding) ==
    IF encoding = "latin-1" THEN cs ELSE utf8(cs)

\* ------------------------------------------------------------- hmac model
\* An hmac object: the key and digest constructor it was made with and the
\* message bytes fed to it so far.
Null == [key |-> <<>>, digestmod |-> "none", msg |-> <<>>]

\* mac.digest_size: fixed by the digest constructor alone.  The two model
\* hashes have 3-byte ("sha1", the default) and 2-byte ("md5") digests.
digest_size(digestmod) == IF digestmod = "md5" THEN 2 ELSE 3

mix(acc, b) == (acc * 31 + b + 1) % 65521

RECURSIVE absorb(_, _)
absorb(acc, bs) == IF bs = <<>> THEN acc ELSE absorb(mix(acc, Head(bs)), Tail(bs))

RECURSIVE squeeze(_, _)
squeeze(acc, n) ==
    IF n = 0 THEN <<>> ELSE <<mix(acc, n) % 256>> \o squeeze(mix(acc, n), n - 1)

\* h.digest()
hmac_digest(h) ==
    LET iv == IF h.digestmod = "md5" THEN 5 ELSE 1
        k  == mix(absorb(iv, h.key), 255)
    IN  squeeze(absorb(k, h.msg), digest_size(h.digestmod))

\* hmac.new(data, None, hashfunc)
hmac_new(key, hashfunc) == [key |-> key, digestmod |-> hashfunc, msg |-> <<>>]

\* h.update(x) on the object ref points to
hmac_update(hp, ref, x) == [hp EXCEPT ![ref].msg = @ \o x]

\* mac.copy(): a new object with the same state
hmac_copy_alias(hp, src, fresh) == [heap |-> hp, ref |-> src]

hmac_copy(hp, src, fresh) == [heap |-> [hp EXCEPT ![fresh] = hp[src]], ref |-> fresh]

\* the object hmac.new allocates for the call running in p, and the one
\* mac.copy() allocates inside _pseudorandom
mac_ref_shared(p) == <<1, "mac">>

mac_ref(p) == <<p, "mac">>

h_ref(p) == <<p, "h">>

Refs == Procs \X {"mac", "h"}

\* _pseudorandom(x): the digest and the heap it leaves
_pseudorandom(hp, p, mac, x) ==
    LET c  == hmac_copy(hp, mac, h_ref(p))
        h2 == hmac_update(c.heap, c.ref, x)
    IN  [heap |-> h2, out |-> hmac_digest(h2[c.ref])]

\* ------------------------------------------------------------------ frames
\* The arguments of a call: a.op is the entry point ("bin" for pbkdf2_bin,
\* "hex" for pbkdf2_hex), the other fields are its six parameters.
NoArgs ==
    [op |-> "bin", data |-> [t |-> "bytes", v |-> <<>>],
     salt |-> [t |-> "bytes", v |-> <<>>], iterations |-> 1, keylen |-> 0,
     hashfunc |-> "None", encoding |-> "utf-8"]

\* The locals of one call.  evals, idxlog and mixed are observations: the
\* number of _pseudorandom evaluations made, the block indices handed to the
\* block loop body in order, and whether a PRF evaluation of this call was
\* made while another call was between two of its own.
Idle(p) ==
    [p |-> p, pc |-> "idle", a |-> NoArgs, data |-> <<>>, salt |-> <<>>,
     mac |-> mac_ref(p), iterations |-> 0, keylen |-> 0, blocks_len |-> 0,
     buf |-> <<>>, block |-> 0, rv |-> <<>>, u |-> <<>>, i |-> 0,
     result |-> <<>>, error |-> "none", evals |-> 0, idxlog |-> <<>>,
     mixed |-> FALSE]

\* pbkdf2_hex hands its arguments to pbkdf2_bin, the encoding as written there
pbkdf2_hex_encoding(encoding) == "utf-8"

\* blocks_len = -(-keylen // mac.digest_size) + 1
blocks_len_floor(keylen, size) == (keylen \div size) + 2

blocks_len_short(keylen, size) == 0 - ((0 - keylen) \div size)

blocks_len_of(keylen, size) == 0 - ((0 - keylen) \div size) + 1

\* for block in xrange(1, blocks_len): the first block index
first_block_zero == 1 - 1

first_block == 1

\* Entry: pbkdf2_hex's call of pbkdf2_bin when a.op = "hex", then
\* pbkdf2_bin up to the call of _bin and _bin's buf = b"".
enter(hp, p, a) ==
    LET encoding == IF a.op = "hex" THEN pbkdf2_hex_encoding(a.encoding)
                    ELSE a.encoding
        hashfunc == IF a.hashfunc = "None" THEN "sha1" ELSE a.hashfunc
        bad  == \/ can_encode(a.data) /\ ~encodable(a.data.v, encoding)
                \/ can_encode(a.salt) /\ ~encodable(a.salt.v, encoding)
        data == IF can_encode(a.data) THEN str_encode(a.data.v, encoding)
                ELSE a.data.v
        salt == IF can_encode(a.salt) THEN str_encode(a.salt.v, encoding)
                ELSE a.salt.v
        mac  == mac_ref(p)
    IN  IF bad
        THEN [heap |-> hp,
              f |-> [Idle(p) EXCEPT !.pc = "raised", !.a = a,
                                    !.error = "UnicodeEncodeError"]]
        ELSE [heap |-> [hp EXCEPT ![mac] = hmac_new(data, hashfunc)],
              f |-> [Idle(p) EXCEPT
                        !.pc = "for_block", !.a = a, !.data = data,
                        !.salt = salt, !.mac = mac,
                        !.iterations = a.iterations, !.keylen = a.keylen,
                        !.blocks_len =
                            blocks_len_of(a.keylen, digest_size(hashfunc)),
                        !.block = first_block]]

\* rv = u = _pseudorandom(salt + _pack_int(block))
block_start(hp, f) ==
    LET r == _pseudorandom(hp, f.p, f.mac, f.salt \o _pack_int(f.block))
    IN  [heap |-> r.heap,
         f |-> [f EXCEPT !.pc = "for_iter", !.rv = r.out, !.u = r.out,
                         !.i = 0, !.evals = @ + 1,
                         !.idxlog = Append(@, f.block)]]

\* rv = list(starmap(xor, izip(rv, u)))
fold_assign(rv, u) == u

fold(rv, u) == starmap_xor(rv, u)

\* one pass of: for i in xrange(iterations - 1)
fold_step(hp, f) ==
    LET r == _pseudorandom(hp, f.p, f.mac, f.u)
    IN  [heap |-> r.heap,
         f |-> [f EXCEPT !.u = r.out, !.rv = fold(f.rv, r.out),
                         !.i = @ + 1, !.evals = @ + 1]]

\* buf += bytes(rv)
buf_add(buf, rv) == buf \o rv

block_end(hp, f) ==
    [heap |-> hp,
     f |-> [f EXCEPT !.pc = "for_block", !.buf = buf_add(f.buf, f.rv),
                     !.block = @ + 1, !.rv = <<>>, !.u = <<>>, !.i = 0]]

\* _bin(...)[:keylen]
truncate_tail(buf, keylen) ==
    SubSeq(buf, Len(buf) - Min(Max(keylen, 0), Len(buf)) + 1, Len(buf))

truncate(buf, keylen) == slice_to(buf, keylen)

\* return buf; the slice in pbkdf2_bin; codecs.encode in pbkdf2_hex.  The
\* call's hmac objects are released.
return(hp, f) ==
    LET key == truncate(f.buf, f.keylen)
    IN  [heap |-> [hp EXCEPT ![f.mac] = Null, ![h_ref(f.p)] = Null],
         f |-> [Idle(f.p) EXCEPT
                   !.pc = "returned", !.a = f.a,
                   !.result = IF f.a.op = "hex" THEN hex_encode(key) ELSE key,
                   !.evals = f.evals, !.idxlog = f.idxlog,
                   !.mixed = f.mixed]]

\* which statement the frame is at
at_block_start(f) == f.pc = "for_block" /\ f.block < f.blocks_len
at_return(f)      == f.pc = "for_block" /\ ~(f.block < f.blocks_len)
at_fold(f)        == f.pc = "for_iter" /\ f.i < f.iterations - 1
at_block_end(f)   == f.pc = "for_iter" /\ ~(f.i < f.iterations - 1)

step(hp, f) ==
    IF at_block_start(f) THEN block_start(hp, f)
    ELSE IF at_fold(f) THEN fold_step(hp, f)
    ELSE IF at_block_end(f) THEN block_end(hp, f)
    ELSE return(hp, f)

RECURSIVE run(_, _)
run(hp, f) ==
    IF f.pc \in {"returned", "raised"} THEN f
    ELSE LET s == step(hp, f) IN run(s.heap, s.f)

\* A call run from entry to exit with nothing else running
Solo(a) ==
    LET s == enter([r \in Refs |-> Null], 1, a) IN run(s.heap, s.f)

\* ----------------------------------------------------------------- inputs
HashFuncs == {"None", "sha1", "md5"}
Encodings == {"utf-8", "latin-1"}
Bytes(v) == [t |-> "bytes", v |-> v]
Str(v)   == [t |-> "str", v |-> v]
Datas == {Bytes(<<1, 2>>), Str(<<97>>), Str(<<233>>), Str(<<8364>>)}
Salts == {Bytes(<<>>), Bytes(<<7>>), Str(<<233>>)}

Args ==
    [op : {"bin", "hex"}, data : Datas, salt : Salts,
     iterations : (0 - 1)..MaxIterations,
     keylen : (0 - MaxNegKeylen)..MaxKeylen,
     hashfunc : HashFuncs, encoding : Encodings]

ConcArgs ==
    [op : {"bin"}, data : {Bytes(<<1, 2>>), Bytes(<<3>>)}, salt : {Bytes(<<7>>)},
     iterations : 1..ConcMaxIterations, keylen : 0..ConcMaxKeylen,
     hashfunc : {"sha1", "md5"}, encoding : {"utf-8"}]

\* ---------------------------------------------------------------- actions
Init ==
    /\ heap = [r \in Refs |-> Null]
    /\ frame = [p \in Procs |-> Idle(p)]

running(f) == f.pc \in {"for_block", "for_iter"}

Apply(p, s) ==
    /\ heap' = s.heap
    /\ frame' = [frame EXCEPT ![p] = s.f]

\* a PRF evaluation by p; it is mixed when another call has evaluated and
\* has not returned
ApplyEval(p, s) ==
    LET others == \E q \in Procs \ {p} : running(frame[q]) /\ frame[q].evals > 0
    IN  /\ heap' = s.heap
        /\ frame' = [frame EXCEPT ![p] = [s.f EXCEPT !.mixed = @ \/ others]]

Call(p, a) ==
    /\ frame[p].pc = "idle"
    /\ Apply(p, enter(heap, p, a))

BlockStart(p) ==
    /\ at_block_start(frame[p])
    /\ ApplyEval(p, block_start(heap, frame[p]))

Fold(p) ==
    /\ at_fold(frame[p])
    /\ ApplyEval(p, fold_step(heap, frame[p]))

BlockEnd(p) ==
    /\ at_block_end(frame[p])
    /\ Apply(p, block_end(heap, frame[p]))

Return(p) ==
    /\ at_return(frame[p])
    /\ Apply(p, return(heap, frame[p]))

\* the caller is done with the outcome of its call (as check() is with rv)
Discard(p) ==
    /\ frame[p].pc \in {"returned", "raised"}
    /\ frame' = [frame EXCEPT ![p] = Idle(p)]
    /\ UNCHANGED heap

\* one caller
Next ==
    \/ \E a \in Args : Call(1, a)
    \/ BlockStart(1)
    \/ Fold(1)
    \/ BlockEnd(1)
    \/ Return(1)
    \/ Discard(1)

Spec == Init /\ [][Next]_vars

\* two callers, their steps interleaved
NextConc ==
    \/ \E p \in Procs : \E a \in ConcArgs : Call(p, a)
    \/ \E p \in Procs : BlockStart(p)
    \/ \E p \in Procs : Fold(p)
    \/ \E p \in Procs : BlockEnd(p)
    \/ \E p \in Procs : Return(p)
    \/ \E p \in Procs : Discard(p)

SpecConc == Init /\ [][NextConc]_vars

\* ------------------------------------------------------------- reference
\* PBKDF2 as RFC 2898 defines it, over the same PRF.
PRF(key, hashfunc, msg) ==
    hmac_digest([key |-> key, digestmod |-> hashfunc, msg |-> msg])

RECURSIVE RefU(_, _, _, _, _)
RefU(key, hashfunc, salt, i, j) ==
    IF j = 1 THEN PRF(key, hashfunc, salt \o _pack_int(i))
    ELSE PRF(key, hashfunc, RefU(key, hashfunc, salt, i, j - 1))

RECURSIVE RefT(_, _, _, _, _)
RefT(key, hashfunc, salt, i, c) ==
    IF c = 1 THEN RefU(key, hashfunc, salt, i, 1)
    ELSE LET t == RefT(key, hashfunc, salt, i, c - 1)
             w == RefU(key, hashfunc, salt, i, c)
         IN  [k \in 1..Len(t) |-> xor(t[k], w[k])]

RECURSIVE RefBlocks(_, _, _, _, _)
RefBlocks(key, hashfunc, salt, c, n) ==
    IF n <= 0 THEN <<>>
    ELSE RefBlocks(key, hashfunc, salt, c, n - 1) \o RefT(key, hashfunc, salt, n, c)

Ceil(keylen, size) == (keylen + size - 1) \div size

RefDK(key, hashfunc, salt, c, keylen) ==
    SubSeq(RefBlocks(key, hashfunc, salt, c, Ceil(keylen, digest_size(hashfunc))),
           1, keylen)

\* what the arguments a denote: the hash, and the key and salt as bytes
HashOf(a) == IF a.hashfunc = "None" THEN "sha1" ELSE a.hashfunc
BytesOf(s, encoding) == IF s.t = "str" THEN str_encode(s.v, encoding) ELSE s.v
KeyOf(a)  == BytesOf(a.data, a.encoding)
SaltOf(a) == BytesOf(a.salt, a.encoding)
Valid(a)  == a.iterations >= 1 /\ a.keylen >= 0

\* ----------------------------------------------------------------- claims

\* C1: a pbkdf2_bin call with iterations >= 1 and keylen k >= 0 returns
\* exactly k bytes, also for k = 0 and for k a multiple or not of the digest
\* size.
C1_ExactLength ==
    \A p \in Procs :
        (frame[p].pc = "returned" /\ frame[p].a.op = "bin" /\ Valid(frame[p].a))
            => Len(frame[p].result) = frame[p].a.keylen

C1_Witness ==
    /\ frame[1].pc = "returned" /\ frame[1].a.op = "bin"
    /\ frame[1].a.iterations = 2 /\ frame[1].a.keylen = 5
    /\ frame[1].a.hashfunc = "sha1"
    /\ Len(frame[1].idxlog) = 2 /\ Len(frame[1].result) = 5

\* C2: a call with iterations < 1 never returns a key and makes no PRF
\* evaluation (it is rejected before any hashing).  Stated for calls whose
\* keylen is legal, so that only the iteration count is at fault.
C2_IterationsRejected ==
    \A p \in Procs :
        (frame[p].pc # "idle" /\ frame[p].a.iterations < 1
                              /\ frame[p].a.keylen >= 0)
            => (frame[p].pc # "returned" /\ frame[p].evals = 0)

\* C3: a call with keylen < 0 never returns anything, not even an empty key,
\* and makes no PRF evaluation.  Stated for calls whose iteration count is
\* legal, so that only keylen is at fault.
C3_KeylenRejected ==
    \A p \in Procs :
        (frame[p].pc # "idle" /\ frame[p].a.keylen < 0
                              /\ frame[p].a.iterations >= 1)
            => (frame[p].pc # "returned" /\ frame[p].evals = 0)

\* C4: what pbkdf2_hex returns is the lowercase hex encoding of what
\* pbkdf2_bin returns for the same six arguments, the encoding included.
\* Stated for iterations >= 1 and keylen >= 0, and for arguments with which
\* pbkdf2_bin returns.
C4_HexIsFormattingOfBin ==
    \A p \in Procs :
        (frame[p].pc = "returned" /\ frame[p].a.op = "hex" /\ Valid(frame[p].a))
            => LET b == Solo([frame[p].a EXCEPT !.op = "bin"])
               IN  b.pc = "returned" => frame[p].result = hex_encode(b.result)

\* C5: for iterations >= 1 and keylen >= 0 the key pbkdf2_bin returns is the
\* first keylen bytes of T_1 || ... || T_n, n = ceil(keylen / digest size),
\* T_i the XOR of U_1 .. U_iterations.
C5_MatchesReference ==
    \A p \in Procs :
        (frame[p].pc = "returned" /\ frame[p].a.op = "bin" /\ Valid(frame[p].a))
            => frame[p].result =
                   RefDK(KeyOf(frame[p].a), HashOf(frame[p].a), SaltOf(frame[p].a),
                         frame[p].a.iterations, frame[p].a.keylen)

C5_Witness ==
    /\ frame[1].pc = "returned" /\ frame[1].a.op = "bin"
    /\ frame[1].a.iterations = 3 /\ frame[1].a.keylen = 7
    /\ frame[1].a.data = Str(<<233>>) /\ frame[1].a.encoding = "utf-8"
    /\ frame[1].evals = 9 /\ Len(frame[1].result) = 7

\* C6: for iterations >= 1 and 0 <= k1 <= k2, the key for keylen k1 is the
\* first k1 bytes of the key for keylen k2, whatever the number of blocks
\* each needs.
C6_PrefixMonotone ==
    \A p \in Procs :
        (frame[p].pc = "returned" /\ frame[p].a.op = "bin" /\ Valid(frame[p].a))
            => \A k1 \in 0..frame[p].a.keylen :
                   LET s == Solo([frame[p].a EXCEPT !.keylen = k1])
                   IN  /\ s.pc = "returned"
                       /\ s.result = SubSeq(frame[p].result, 1, k1)

C6_Witness ==
    /\ frame[1].pc = "returned" /\ frame[1].a.op = "bin"
    /\ frame[1].a.iterations = 2 /\ frame[1].a.keylen = 7
    /\ frame[1].a.hashfunc = "md5"
    /\ Len(frame[1].idxlog) = 4
    /\ Len(Solo([frame[1].a EXCEPT !.keylen = 3]).idxlog) = 2
    /\ Len(frame[1].result) = 7

\* C7: a call whose PRF evaluations are interleaved with another call's
\* returns what the same call returns when run alone, and two calls with the
\* same arguments return the same bytes.
C7_IndependentDeterministic ==
    \A p \in Procs :
        frame[p].pc = "returned"
            => /\ LET s == Solo(frame[p].a)
                  IN  s.pc = "returned" /\ s.result = frame[p].result
               /\ \A q \in Procs :
                      (frame[q].pc = "returned" /\ frame[q].a = frame[p].a)
                          => frame[q].result = frame[p].result

C7_Witness ==
    /\ \A p \in Procs :
           /\ frame[p].pc = "returned" /\ frame[p].mixed
           /\ frame[p].evals >= 2 /\ frame[p].result # <<>>
    /\ frame[1].a.data # frame[2].a.data
    /\ frame[1].a.hashfunc # frame[2].a.hashfunc

\* C8: a call with keylen >= 0 runs the block loop body exactly
\* ceil(keylen / digest size) times: never when keylen = 0, keylen / size
\* times when keylen is a positive multiple of the size.
C8_BlockCount ==
    \A p \in Procs :
        /\ (running(frame[p]) /\ frame[p].a.keylen >= 0)
               => Len(frame[p].idxlog)
                      <= Ceil(frame[p].a.keylen, digest_size(HashOf(frame[p].a)))
        /\ (frame[p].pc = "returned" /\ frame[p].a.keylen >= 0)
               => Len(frame[p].idxlog)
                      = Ceil(frame[p].a.keylen, digest_size(HashOf(frame[p].a)))

C8_Witness ==
    /\ frame[1].pc = "returned"
    /\ frame[1].a.keylen = 6 /\ HashOf(frame[1].a) = "sha1"
    /\ Len(frame[1].idxlog) = 2

\* C9: the k-th block generated in a call has index k (indices start at 1 and
\* go up by one), and for iterations >= 1 the accumulator is the blocks
\* finished so far concatenated in index order.
C9_IndexOrder ==
    \A p \in Procs :
        (running(frame[p]) \/ frame[p].pc = "returned")
            => /\ frame[p].idxlog = [k \in 1..Len(frame[p].idxlog) |-> k]
               /\ (running(frame[p]) /\ frame[p].a.iterations >= 1)
                      => frame[p].buf =
                             RefBlocks(frame[p].data, HashOf(frame[p].a),
                                       frame[p].salt, frame[p].a.iterations,
                                       frame[p].block - 1)

C9_Witness ==
    /\ frame[1].pc = "for_iter" /\ frame[1].block = 3
    /\ frame[1].idxlog = <<1, 2, 3>>
    /\ frame[1].a.iterations = 2
    /\ Len(frame[1].buf) = 2 * digest_size(HashOf(frame[1].a))

\* C10: no PRF evaluation changes the keyed context of the call: at every
\* point of the call, evaluating a message on it gives the digest the
\* freshly constructed context gives.
Msgs == {<<>>, <<0>>, <<1, 2>>}

C10_ContextUnchanged ==
    \A p \in Procs :
        running(frame[p])
            => \A m \in Msgs :
                   LET r == _pseudorandom(heap, p, frame[p].mac, m)
                       fresh == hmac_new(frame[p].data, HashOf(frame[p].a))
                   IN  r.out = PRF(fresh.key, fresh.digestmod, m)

C10_Witness ==
    /\ running(frame[1]) /\ frame[1].evals >= 3
    /\ heap[h_ref(1)] # Null
    /\ heap[frame[1].mac] = hmac_new(frame[1].data, HashOf(frame[1].a))

====
